---- MODULE Spec2Model ----
(***************************************************************************)
(* A model of hyrox_istanbul.py: the one-shot pipeline                     *)
(*   now_copenhagen -> fetch_html -> extract_next_data -> build_inventory  *)
(*   -> mkdir -> write_text -> print                                       *)
(* Text is modelled as sequences of one-character strings, so that strip,  *)
(* upper, the substring test and strftime are computed, not assumed.       *)
(* JSON values keep their type, so that bool(), int() and `or` are the     *)
(* conversions Python performs.                                            *)
(***************************************************************************)
EXTENDS Integers, Sequences, FiniteSets, TLC

(***************************************************************************)
(* Bounds of the model.                                                    *)
(***************************************************************************)
\* longest ticket list drawn from the core ticket universe
MaxTickets == 2
\* how many midnights may pass while the network request blocks
MaxTicks == 1

(***************************************************************************)
(* Characters and strings.                                                 *)
(***************************************************************************)
LowerCase ==
    <<"a","b","c","d","e","f","g","h","i","j","k","l","m",
      "n","o","p","q","r","s","t","u","v","w","x","y","z">>

UpperCase ==
    <<"A","B","C","D","E","F","G","H","I","J","K","L","M",
      "N","O","P","Q","R","S","T","U","V","W","X","Y","Z">>

DigitChars == <<"0","1","2","3","4","5","6","7","8","9">>

\* str.strip() with no argument removes these (the ones the model uses)
Whitespace == {" ", "\t", "\n"}

\* str.upper(), one character
UpperChar(c) ==
    IF \E i \in 1..Len(LowerCase) : LowerCase[i] = c
    THEN UpperCase[CHOOSE i \in 1..Len(LowerCase) : LowerCase[i] = c]
    ELSE c

\* str.upper()
Upper(s) == [i \in 1..Len(s) |-> UpperChar(s[i])]

RECURSIVE LStrip(_)
LStrip(s) ==
    IF s # <<>> /\ Head(s) \in Whitespace THEN LStrip(Tail(s)) ELSE s

RECURSIVE RStrip(_)
RStrip(s) ==
    IF s # <<>> /\ s[Len(s)] \in Whitespace
    THEN RStrip(SubSeq(s, 1, Len(s) - 1))
    ELSE s

\* str.strip()
Strip(s) == RStrip(LStrip(s))

\* Python's `needle in hay` on strings
Contains(hay, needle) ==
    \E i \in 1..(Len(hay) - Len(needle) + 1) :
        SubSeq(hay, i, i + Len(needle) - 1) = needle

\* the keyword list with its second entry forgotten
KeywordsSpectatorOnly == << <<"S","P","E","C","T","A","T","O","R">> >>

EXCLUDE_KEYWORDS ==
    << <<"S","P","E","C","T","A","T","O","R">>, <<"R","E","L","A","Y">> >>

\* any(k in upper for k in EXCLUDE_KEYWORDS)
AnyExcluded(upper) ==
    \E k \in 1..Len(EXCLUDE_KEYWORDS) : Contains(upper, EXCLUDE_KEYWORDS[k])

DEFAULT_URL == "https://turkiye.hyrox.com/checkout/hyrox-istanbul-season-25-26-y3v06t"

(***************************************************************************)
(* JSON values as dict.get returns them: None stands for a missing key    *)
(* and for null alike.                                                     *)
(***************************************************************************)
JNone == [t |-> "none", b |-> FALSE, n |-> 0, s |-> <<>>]

JBool(x) == [t |-> "bool", b |-> x, n |-> 0, s |-> <<>>]

JNum(x) == [t |-> "num", b |-> FALSE, n |-> x, s |-> <<>>]

JStr(x) == [t |-> "str", b |-> FALSE, n |-> 0, s |-> x]

\* bool(x)
Truthy(x) ==
    CASE x.t = "none" -> FALSE
      [] x.t = "bool" -> x.b
      [] x.t = "num" -> x.n # 0
      [] x.t = "str" -> x.s # <<>>

\* `x or d`
OrElse(x, d) == IF Truthy(x) THEN x ELSE d

DigitValue(c) == (CHOOSE i \in 1..10 : DigitChars[i] = c) - 1

IsDigit(c) == \E i \in 1..10 : DigitChars[i] = c

RECURSIVE DigitsValue(_)
DigitsValue(s) ==
    IF s = <<>> THEN 0
    ELSE 10 * DigitsValue(SubSeq(s, 1, Len(s) - 1)) + DigitValue(s[Len(s)])

\* the text int() accepts: optional sign, then one or more digits
IsIntLiteral(s) ==
    LET body == IF s # <<>> /\ s[1] \in {"+", "-"} THEN Tail(s) ELSE s
    IN  body # <<>> /\ \A i \in 1..Len(body) : IsDigit(body[i])

\* int(x): the value, or the exception it raises
PyInt(x) ==
    CASE x.t = "num" -> [err |-> "none", val |-> x.n]
      [] x.t = "bool" -> [err |-> "none", val |-> IF x.b THEN 1 ELSE 0]
      [] x.t = "none" -> [err |-> "TypeError", val |-> 0]
      [] x.t = "str" ->
            LET s == Strip(x.s)
            IN  IF IsIntLiteral(s)
                THEN [err |-> "none",
                      val |-> IF s[1] = "-" THEN 0 - DigitsValue(Tail(s))
                              ELSE IF s[1] = "+" THEN DigitsValue(Tail(s))
                              ELSE DigitsValue(s)]
                ELSE [err |-> "ValueError", val |-> 0]

(***************************************************************************)
(* Dates and the output file name.                                         *)
(***************************************************************************)
IsLeap(y) == (y % 4 = 0 /\ y % 100 # 0) \/ y % 400 = 0

DaysIn(m, y) ==
    IF m = 2 THEN (IF IsLeap(y) THEN 29 ELSE 28)
    ELSE IF m \in {4, 6, 9, 11} THEN 30 ELSE 31

\* the wall-clock date one midnight later
NextDay(dt) ==
    IF dt.d < DaysIn(dt.m, dt.y) THEN [dt EXCEPT !.d = dt.d + 1]
    ELSE IF dt.m < 12 THEN [d |-> 1, m |-> dt.m + 1, y |-> dt.y]
    ELSE [d |-> 1, m |-> 1, y |-> dt.y + 1]

RECURSIVE Decimal(_)
Decimal(n) ==
    IF n < 10 THEN <<DigitChars[n + 1]>>
    ELSE Decimal(n \div 10) \o <<DigitChars[(n % 10) + 1]>>

RECURSIVE ZeroFill(_, _)
ZeroFill(s, w) == IF Len(s) >= w THEN s ELSE ZeroFill(<<"0">> \o s, w)

\* day and month without the leading zero
PadNone(n, w) == Decimal(n)

\* strftime's %d and %m (w = 2): decimal, zero-padded to w
Pad(n, w) == ZeroFill(Decimal(n), w)

\* dt.strftime("%d.%m.%Y") + ".json"; %Y is the year in decimal, which has
\* four digits for every date now_copenhagen can return
date_filename(dt) ==
    Pad(dt.d, 2) \o <<".">> \o Pad(dt.m, 2) \o <<".">> \o Decimal(dt.y)
        \o <<".", "j", "s", "o", "n">>

(***************************************************************************)
(* The category lookup and the per-ticket filter of build_inventory.       *)
(***************************************************************************)
\* Python's None where a string may stand: a missing or null ref or name
None == "<None>"

\* c.get("name") or "Unknown"
NameOrUnknown(name) == IF name = None \/ name = "" THEN "Unknown" ELSE name

\* {c.get("ref"): (c.get("name") or "Unknown") for c in categories}:
\* a later record with the same ref replaces an earlier one
CatMapOf(cats) ==
    [r \in {cats[k].ref : k \in 1..Len(cats)} |->
        LET last == CHOOSE k \in 1..Len(cats) :
                        /\ cats[k].ref = r
                        /\ \A l \in (k + 1)..Len(cats) : cats[l].ref # r
        IN  NameOrUnknown(cats[last].name)]

\* cat_map.get(t.get("categoryRef"), "Unknown")
CatLookup(cm, ref) == IF ref \in DOMAIN cm THEN cm[ref] ELSE "Unknown"

\* event.get("tickets", []) or []   (and the same for categories)
ListOrEmpty(l) == IF l.st = "list" THEN l.items ELSE <<>>

\* the name taken without .strip()
TicketNameUntrimmed(t) == OrElse(t.name, JStr(<<>>)).s

\* (t.get("name") or "").strip()
TicketName(t) == Strip(OrElse(t.name, JStr(<<>>)).s)

\* int(t.get("v") or 0)
TicketStock(t) == PyInt(OrElse(t.v, JNum(0)))

\* bool((t.get("styleOptions") or {}).get("hiddenInSelectionArea"))
TicketHidden(t) ==
    IF t.styleOptions.present THEN Truthy(t.styleOptions.hidden) ELSE FALSE

\* bool(t.get("active"))
TicketActive(t) == Truthy(t.active)

\* a stock of zero let through
StockNonNegative(s) == s >= 0

\* stock > 0
StockPositive(s) == s > 0

\* if active and stock > 0 and not hidden
Passes(t, stock) == TicketActive(t) /\ StockPositive(stock) /\ ~TicketHidden(t)

\* a later duplicate replacing the earlier value
AccumulateOverwrite(old, s) == s

\* by_parkur[p].get(n, 0) + s
Accumulate(old, s) == old + s

\* by_parkur.setdefault(p, {}); by_parkur[p][n] = by_parkur[p].get(n, 0) + s
GroupInto(bp, r) ==
    LET sub == IF r.parkur \in DOMAIN bp THEN bp[r.parkur] ELSE <<>>
        old == IF r.ticket \in DOMAIN sub THEN sub[r.ticket] ELSE 0
        new == (r.ticket :> Accumulate(old, r.stock)) @@ sub
    IN  (r.parkur :> new) @@ bp

\* the row list kept from an earlier call
StaleRows(stale) == stale

\* rows = []
FreshRows(stale) == <<>>

\* by_parkur = {}
FreshMap(stale) == <<>>

(***************************************************************************)
(* The inputs: ticket and category records, documents, pages, dates.       *)
(***************************************************************************)
NoStyle == [present |-> FALSE, hidden |-> JNone]

Style(h) == [present |-> TRUE, hidden |-> h]

Ticket(name, active, v, style, ref) ==
    [name |-> name, active |-> active, v |-> v, styleOptions |-> style,
     categoryRef |-> ref]

Category(ref, name) == [ref |-> ref, name |-> name]

nOpen == JStr(<<"O","p","e","n">>)

nPro == JStr(<<" ","P","r","o","\t">>)

nBlank == JStr(<<" ","\t">>)

nRelay == JStr(<<"x","R","e","l","a","y">>)

nSpectator == JStr(<<"S","p","e","c","t","a","t","o","r","s">>)

nRelax == JStr(<<"R","e","l","a","x">>)

sNo == JStr(<<"n","o">>)

sSeven == JStr(<<" ","7">>)

sAbc == JStr(<<"a","b","c">>)

NameValues == {nOpen, nPro, nBlank, JNone, nRelay, nSpectator, nRelax}

ActiveValues == {JBool(TRUE), JBool(FALSE), JNone, JNum(1), sNo}

StockValues ==
    {JNone, JNum(0), JNum(3), JNum(0 - 2), sSeven, sAbc, JStr(<<>>), JBool(TRUE)}

StyleValues ==
    {NoStyle, Style(JNone), Style(JBool(TRUE)), Style(JBool(FALSE)), Style(sNo)}

\* every combination of field values, used in one-ticket lists
TicketsFull ==
    {Ticket(n, a, v, st, r) :
        n \in NameValues, a \in ActiveValues, v \in StockValues,
        st \in StyleValues, r \in {"c1", None}}

\* the tickets that longer lists are drawn from
TicketsCore ==
    {Ticket(nOpen, JBool(TRUE), JNum(3), NoStyle, "c1"),
     Ticket(nOpen, JBool(TRUE), JNum(5), Style(JNone), "c1"),
     Ticket(nPro, JBool(TRUE), sSeven, NoStyle, "c2"),
     Ticket(nOpen, JBool(TRUE), JNum(1), NoStyle, None),
     Ticket(nRelay, JBool(TRUE), JNum(3), NoStyle, "c1"),
     Ticket(nOpen, JBool(TRUE), sAbc, NoStyle, "c1"),
     Ticket(nOpen, JBool(FALSE), JNum(3), NoStyle, "c1"),
     Ticket(nOpen, JBool(TRUE), JNum(3), NoStyle, "c9")}

SeqsUpTo(S, n) == UNION {[1..k -> S] : k \in 0..n}

JList(items) == [st |-> "list", items |-> items]

JMissing == [st |-> "missing", items |-> <<>>]

JNull == [st |-> "null", items |-> <<>>]

DefaultCategories == JList(<<Category("c1", "Men"), Category("c2", "Women")>>)

CategoryLists ==
    {DefaultCategories, JMissing, JNull, JList(<<>>),
     JList(<<Category("c1", "Men"), Category("c1", "Elite")>>),
     JList(<<Category(None, "Doubles"), Category("c2", "Women")>>),
     JList(<<Category("c1", ""), Category("c2", None)>>),
     JList(<<Category("c1", "Unknown")>>)}

AllObj == <<"obj", "obj", "obj">>

\* props, pageProps, event: an object, a missing key, or null
Paths ==
    {AllObj, <<"missing", "obj", "obj">>, <<"obj", "missing", "obj">>,
     <<"obj", "obj", "missing">>, <<"null", "obj", "obj">>,
     <<"obj", "null", "obj">>, <<"obj", "obj", "null">>,
     <<"missing", "null", "obj">>}

Doc(path, tickets, categories) ==
    [path |-> path, tickets |-> tickets, categories |-> categories]

NoDoc == Doc(<<>>, JMissing, JMissing)

OneTicket == <<Ticket(nOpen, JBool(TRUE), JNum(3), NoStyle, "c1")>>

DocsBig ==
    {Doc(AllObj, JList(<<t>>), DefaultCategories) : t \in TicketsFull}
    \cup {Doc(AllObj, JList(ts), c) :
            ts \in SeqsUpTo(TicketsCore, MaxTickets), c \in CategoryLists}
    \cup {Doc(p, JList(OneTicket), DefaultCategories) : p \in Paths}
    \cup {Doc(AllObj, l, c) : l \in {JMissing, JNull}, c \in CategoryLists}

DocsSmall ==
    {Doc(AllObj, JList(OneTicket), DefaultCategories),
     Doc(AllObj, JList(<<Ticket(nOpen, JBool(TRUE), sAbc, NoStyle, "c1")>>),
         DefaultCategories),
     Doc(<<"obj", "null", "obj">>, JList(OneTicket), DefaultCategories)}

\* what the server answers: an error status, a page without the script tag,
\* a tag whose text is not JSON, or a tag holding a document
Page(kind, doc) == [kind |-> kind, doc |-> doc]

NoPage == Page("unset", NoDoc)

FailingPages ==
    {Page("http_error", NoDoc), Page("no_tag", NoDoc), Page("bad_json", NoDoc)}

PagesBig == {Page("ok", d) : d \in DocsBig}

PagesSmall == FailingPages \cup {Page("ok", d) : d \in DocsSmall}

Date(d, m, y) == [d |-> d, m |-> m, y |-> y]

NoDate == Date(0, 0, 0)

Date0 == Date(3, 1, 2026)

Dates ==
    {Date0, Date(31, 12, 2026), Date(28, 2, 2027), Date(28, 2, 2028),
     Date(9, 10, 2026), Date(30, 11, 1999)}

OtherUrl == "https://example.test/event"

OutDirs == {".", "out"}

NoExc == [type |-> "none", where |-> "none"]

Exc(type, where) == [type |-> type, where |-> where]

NoInv == [tickets |-> <<>>, by_parkur |-> <<>>]

Payload(u, at, i) ==
    [event_url |-> u, fetched_at |-> at, tickets |-> i.tickets,
     by_parkur |-> i.by_parkur]

\* a file an earlier run left at the path this run would write
StaleFiles(dir, clk) ==
    (<<dir, date_filename(clk)>> :> Payload(DEFAULT_URL, clk, NoInv))

(***************************************************************************)
(* State.                                                                  *)
(***************************************************************************)
VARIABLES
    \* the environment of a run
    url, out_dir, page, clock, midnights, writable, dirs, files,
    \* main
    pc, exc, dt, out_path, html, next_data, inv, payload, stdout,
    \* build_inventory
    bpc, event, tickets, categories, cat_map, rows, i, by_parkur, j,
    \* history: the source index of each row, whether this is the second run,
    \* the outcome of the first run, the file system when the run started,
    \* the stages that have succeeded in this run
    src, rerun, first, fs0, stages

envVars == <<url, out_dir, page, writable>>

fsVars == <<dirs, files>>

mainVars == <<dt, out_path, html, next_data, inv, payload, stdout>>

buildVars == <<bpc, event, tickets, categories, cat_map, rows, i, by_parkur, j, src>>

histVars == <<rerun, first, fs0>>

vars ==
    <<url, out_dir, page, clock, midnights, writable, dirs, files,
      pc, exc, dt, out_path, html, next_data, inv, payload, stdout,
      bpc, event, tickets, categories, cat_map, rows, i, by_parkur, j,
      src, rerun, first, fs0, stages>>

\* the output directory made before anything is fetched
MainOrderMkdirFirst ==
    <<"now", "mkdir", "fetch", "extract", "build", "write", "print", "done">>

\* the statements of main, in order
MainOrder ==
    <<"now", "fetch", "extract", "build", "mkdir", "write", "print", "done">>

NextPc(p) == MainOrder[(CHOOSE k \in 1..Len(MainOrder) : MainOrder[k] = p) + 1]

NoEvent == [isNone |-> FALSE, tickets |-> JMissing, categories |-> JMissing]

NoFirst == [exc |-> NoExc, inv |-> NoInv, built |-> FALSE, doc |-> NoDoc]

\* the environments a run may start in: many dates and file systems with a
\* few pages, or many pages with one date and an empty output directory
Environments ==
    {[url |-> u, out_dir |-> o, page |-> p, clock |-> c, midnights |-> n,
      writable |-> w, dirs |-> ds, files |-> fl] :
        u \in {DEFAULT_URL}, o \in {"out"}, p \in PagesBig, c \in {Date0},
        n \in {0}, w \in {TRUE}, ds \in {{"."}}, fl \in {<<>>}}
    \cup
    UNION {{[url |-> u, out_dir |-> o, page |-> p, clock |-> c, midnights |-> n,
             writable |-> w, dirs |-> ds, files |-> fl] :
              u \in {DEFAULT_URL, OtherUrl}, p \in PagesSmall,
              n \in 0..MaxTicks, w \in BOOLEAN,
              ds \in {{"."}, {".", o}}, fl \in {<<>>, StaleFiles(o, c)}} :
            o \in OutDirs, c \in Dates}

Init ==
    /\ \E e \in Environments :
        /\ url = e.url
        /\ out_dir = e.out_dir
        /\ page = e.page
        /\ clock = e.clock
        /\ midnights = e.midnights
        /\ writable = e.writable
        /\ dirs = e.dirs
        /\ files = e.files
        /\ fs0 = [dirs |-> e.dirs, files |-> e.files]
    /\ pc = MainOrder[1]
    /\ exc = NoExc
    /\ dt = NoDate
    /\ out_path = <<".", <<>> >>
    /\ html = NoPage
    /\ next_data = NoDoc
    /\ inv = NoInv
    /\ payload = Payload("", NoDate, NoInv)
    /\ stdout = 0 - 1
    /\ bpc = "idle"
    /\ event = NoEvent
    /\ tickets = <<>>
    /\ categories = <<>>
    /\ cat_map = <<>>
    /\ rows = <<>>
    /\ i = 1
    /\ by_parkur = <<>>
    /\ j = 1
    /\ src = <<>>
    /\ rerun = FALSE
    /\ first = NoFirst
    /\ stages = {}

\* an uncaught exception ends the run
Raise(e) == pc' = "aborted" /\ exc' = e

\* a statement of main has completed
Advance(stage) ==
    /\ pc' = NextPc(stage)
    /\ exc' = exc
    /\ stages' = stages \cup {stage}

(***************************************************************************)
(* main.                                                                   *)
(***************************************************************************)
\* dt = now_copenhagen(); out_path = out_dir / date_filename(dt)
NowCopenhagen ==
    /\ pc = "now"
    /\ dt' = clock
    /\ out_path' = <<out_dir, date_filename(clock)>>
    /\ Advance("now")
    /\ UNCHANGED <<envVars, clock, midnights, fsVars, html, next_data, inv,
                   payload, stdout, buildVars, histVars>>

\* a midnight passes while the request blocks
Midnight ==
    /\ pc = "fetch"
    /\ midnights > 0
    /\ clock' = NextDay(clock)
    /\ midnights' = midnights - 1
    /\ UNCHANGED <<envVars, fsVars, pc, exc, mainVars, buildVars, histVars, stages>>

\* html = fetch_html(url): raise_for_status() raises on a non-2xx answer
FetchHtml ==
    /\ pc = "fetch"
    /\ IF page.kind = "http_error"
       THEN /\ Raise(Exc("HTTPError", "fetch_html"))
            /\ UNCHANGED <<html, stages>>
       ELSE /\ html' = page
            /\ Advance("fetch")
    /\ UNCHANGED <<envVars, clock, midnights, fsVars, dt, out_path, next_data,
                   inv, payload, stdout, buildVars, histVars>>

\* next_data = extract_next_data(html)
ExtractNextData ==
    /\ pc = "extract"
    /\ CASE html.kind = "no_tag" ->
                /\ Raise(Exc("ValueError", "extract_next_data: no tag"))
                /\ UNCHANGED <<next_data, bpc, stages>>
         [] html.kind = "bad_json" ->
                /\ Raise(Exc("ValueError", "extract_next_data: json"))
                /\ UNCHANGED <<next_data, bpc, stages>>
         [] OTHER ->
                /\ next_data' = html.doc
                /\ bpc' = "nav"
                /\ Advance("extract")
    /\ UNCHANGED <<envVars, clock, midnights, fsVars, dt, out_path, html, inv,
                   payload, stdout, event, tickets, categories, cat_map, rows,
                   i, by_parkur, j, src, histVars>>

(***************************************************************************)
(* build_inventory.                                                        *)
(***************************************************************************)
\* the first segment of props.pageProps.event that is no object, or 0
FirstBreak(path) ==
    IF \A k \in 1..Len(path) : path[k] = "obj" THEN 0
    ELSE CHOOSE k \in 1..Len(path) :
            path[k] # "obj" /\ \A l \in 1..(k - 1) : path[l] = "obj"

\* next_data.get("props", {}).get("pageProps", {}).get("event", {}):
\* a missing key gives {}, a null gives None, and None has no .get
BuildNavigate ==
    /\ pc = "build"
    /\ bpc = "nav"
    /\ LET k == FirstBreak(next_data.path)
       IN  IF k # 0 /\ k < Len(next_data.path) /\ next_data.path[k] = "null"
           THEN /\ Raise(Exc("AttributeError", "build_inventory: path"))
                /\ UNCHANGED <<event, bpc>>
           ELSE /\ event' =
                    IF k = 0
                    THEN [isNone |-> FALSE, tickets |-> next_data.tickets,
                          categories |-> next_data.categories]
                    ELSE [NoEvent EXCEPT !.isNone = (next_data.path[k] = "null")]
                /\ bpc' = "lists"
                /\ UNCHANGED <<pc, exc>>
    /\ UNCHANGED <<envVars, clock, midnights, fsVars, mainVars, tickets,
                   categories, cat_map, rows, i, by_parkur, j, src, histVars,
                   stages>>

\* tickets = ... or []; categories = ... or []; cat_map = {...}; rows = []
BuildLists ==
    /\ pc = "build"
    /\ bpc = "lists"
    /\ IF event.isNone
       THEN /\ Raise(Exc("AttributeError", "build_inventory: event"))
            /\ UNCHANGED <<tickets, categories, cat_map, rows, i, src, bpc>>
       ELSE /\ tickets' = ListOrEmpty(event.tickets)
            /\ categories' = ListOrEmpty(event.categories)
            /\ cat_map' = CatMapOf(categories')
            /\ rows' = FreshRows(rows)
            /\ src' = <<>>
            /\ i' = 1
            /\ bpc' = "filter"
            /\ UNCHANGED <<pc, exc>>
    /\ UNCHANGED <<envVars, clock, midnights, fsVars, mainVars, event,
                   by_parkur, j, histVars, stages>>

\* one pass of `for t in tickets`, or the loop's end and by_parkur = {}
BuildFilter ==
    /\ pc = "build"
    /\ bpc = "filter"
    /\ IF i > Len(tickets)
       THEN /\ by_parkur' = FreshMap(by_parkur)
            /\ j' = 1
            /\ bpc' = "group"
            /\ UNCHANGED <<pc, exc, rows, src, i>>
       ELSE LET t == tickets[i]
                name == TicketName(t)
                stock == TicketStock(t)
            IN  IF name = <<>> \/ AnyExcluded(Upper(name))
                THEN /\ i' = i + 1
                     /\ UNCHANGED <<pc, exc, rows, src, by_parkur, j, bpc>>
                ELSE IF stock.err # "none"
                THEN /\ Raise(Exc(stock.err, "build_inventory: int"))
                     /\ UNCHANGED <<rows, src, i, by_parkur, j, bpc>>
                ELSE IF Passes(t, stock.val)
                THEN /\ rows' = Append(rows,
                            [parkur |-> CatLookup(cat_map, t.categoryRef),
                             ticket |-> name, stock |-> stock.val])
                     /\ src' = Append(src, i)
                     /\ i' = i + 1
                     /\ UNCHANGED <<pc, exc, by_parkur, j, bpc>>
                ELSE /\ i' = i + 1
                     /\ UNCHANGED <<pc, exc, rows, src, by_parkur, j, bpc>>
    /\ UNCHANGED <<envVars, clock, midnights, fsVars, mainVars, event, tickets,
                   categories, cat_map, histVars, stages>>

\* one pass of `for r in rows`, or the loop's end: the return, and main's
\* payload = {"event_url": url, "fetched_at": dt.isoformat(), **inv}
BuildGroup ==
    /\ pc = "build"
    /\ bpc = "group"
    /\ IF j > Len(rows)
       THEN /\ inv' = [tickets |-> rows, by_parkur |-> by_parkur]
            /\ payload' = Payload(url, dt, inv')
            /\ bpc' = "idle"
            /\ Advance("build")
            /\ UNCHANGED <<by_parkur, j>>
       ELSE /\ by_parkur' = GroupInto(by_parkur, rows[j])
            /\ j' = j + 1
            /\ UNCHANGED <<pc, exc, stages, inv, payload, bpc>>
    /\ UNCHANGED <<envVars, clock, midnights, fsVars, dt, out_path, html,
                   next_data, stdout, event, tickets, categories, cat_map,
                   rows, i, src, histVars>>

(***************************************************************************)
(* The writer.                                                             *)
(***************************************************************************)
\* out_dir.mkdir(parents=True, exist_ok=True)
Mkdir ==
    /\ pc = "mkdir"
    /\ IF out_dir \in dirs
       THEN Advance("mkdir") /\ UNCHANGED dirs
       ELSE IF writable
       THEN Advance("mkdir") /\ dirs' = dirs \cup {out_dir}
       ELSE Raise(Exc("OSError", "mkdir")) /\ UNCHANGED <<dirs, stages>>
    /\ UNCHANGED <<envVars, clock, midnights, files, mainVars, buildVars, histVars>>

\* out_path.write_text(json.dumps(payload, ...)): replaces what is there
WriteText ==
    /\ pc = "write"
    /\ IF writable /\ out_path[1] \in dirs
       THEN Advance("write") /\ files' = (out_path :> payload) @@ files
       ELSE Raise(Exc("OSError", "write_text")) /\ UNCHANGED <<files, stages>>
    /\ UNCHANGED <<envVars, clock, midnights, dirs, mainVars, buildVars, histVars>>

RECURSIVE SumOver(_, _)
SumOver(S, f) ==
    IF S = {} THEN 0
    ELSE LET x == CHOOSE y \in S : TRUE
         IN  f[x] + SumOver(S \ {x}, f)

\* total = sum(len(v) for v in payload["by_parkur"].values())
SummaryTotal(bp) == SumOver(DOMAIN bp, [p \in DOMAIN bp |-> Cardinality(DOMAIN bp[p])])

\* the console summary
PrintSummary ==
    /\ pc = "print"
    /\ stdout' = SummaryTotal(payload.by_parkur)
    /\ Advance("print")
    /\ UNCHANGED <<envVars, clock, midnights, fsVars, dt, out_path, html,
                   next_data, inv, payload, buildVars, histVars>>

\* the program is invoked again: same arguments, the server answers the same
\* page, the file system is as the first run left it
Rerun ==
    /\ pc \in {"done", "aborted"}
    /\ ~rerun
    /\ rerun' = TRUE
    /\ first' = [exc |-> exc, inv |-> inv, built |-> "build" \in stages,
                 doc |-> next_data]
    /\ fs0' = [dirs |-> dirs, files |-> files]
    /\ pc' = MainOrder[1]
    /\ exc' = NoExc
    /\ stages' = {}
    /\ UNCHANGED <<envVars, clock, midnights, fsVars, mainVars, buildVars>>

Next ==
    \/ NowCopenhagen
    \/ Midnight
    \/ FetchHtml
    \/ ExtractNextData
    \/ BuildNavigate
    \/ BuildLists
    \/ BuildFilter
    \/ BuildGroup
    \/ Mkdir
    \/ WriteText
    \/ PrintSummary
    \/ Rerun

Spec == Init /\ [][Next]_vars

(***************************************************************************)
(* Vocabulary of the properties, stated apart from the operators above.    *)
(***************************************************************************)
\* build_inventory has returned in this run
Returned == "build" \in stages

\* the input records that produced a row
Sources == {src[k] : k \in 1..Len(src)}

kwSpectator == <<"S","P","E","C","T","A","T","O","R">>

kwRelay == <<"R","E","L","A","Y">>

\* the name holds a character that is not white space
NonBlankName(t) ==
    t.name.t = "str" /\ \E k \in 1..Len(t.name.s) : t.name.s[k] \notin Whitespace

\* the name without its leading and trailing white space
TrimmedOf(t, out) ==
    \E a, b \in 1..Len(t.name.s) :
        /\ a <= b
        /\ out = SubSeq(t.name.s, a, b)
        /\ t.name.s[a] \notin Whitespace
        /\ t.name.s[b] \notin Whitespace
        /\ \A k \in 1..Len(t.name.s) : (k < a \/ k > b) => t.name.s[k] \in Whitespace

NameAllowed(t) ==
    /\ NonBlankName(t)
    /\ ~Contains(Upper(t.name.s), kwSpectator)
    /\ ~Contains(Upper(t.name.s), kwRelay)

\* the values Python takes for false
Falsy == {JNone, JBool(FALSE), JNum(0), JStr(<<>>)}

\* the integer a stock field stands for: a number, a decimal text, true as 1
IntegerStock(v) ==
    CASE v.t = "num" -> v.n
      [] v.t = "bool" -> IF v.b THEN 1 ELSE 0
      [] v.t = "str" /\ IsIntLiteral(Strip(v.s)) -> PyInt(v).val
      [] OTHER -> 0

HiddenIsTrue(t) == t.styleOptions.present /\ t.styleOptions.hidden = JBool(TRUE)

HiddenIsTruthy(t) == t.styleOptions.present /\ t.styleOptions.hidden \notin Falsy

\* the filter as the claim words it: active == true, hidden != true
QualifiesStrict(t) ==
    /\ NameAllowed(t)
    /\ t.active = JBool(TRUE)
    /\ IntegerStock(t.v) > 0
    /\ ~HiddenIsTrue(t)

\* the filter with Python's truth values
QualifiesTruthy(t) ==
    /\ NameAllowed(t)
    /\ t.active \notin Falsy
    /\ IntegerStock(t.v) > 0
    /\ ~HiddenIsTruthy(t)

InByParkur(bp, name) == \E p \in DOMAIN bp : name \in DOMAIN bp[p]

\* C1 as stated: a record contributes a row (and an entry of by_parkur) iff
\* its name is non-blank and free of the keywords, active == true, stock > 0
\* and hiddenInSelectionArea != true.
C1_Strict ==
    Returned =>
        \A k \in 1..Len(tickets) : (k \in Sources) <=> QualifiesStrict(tickets[k])

\* C1 amended: in the inventory build_inventory returns, a record contributes
\* a row to tickets, and its trimmed name an entry to by_parkur, iff its name
\* is non-blank and free of the keywords, its active value is truthy, its
\* integer stock is > 0 and its hiddenInSelectionArea value is not truthy.
C1_Filter ==
    Returned =>
        \A k \in 1..Len(tickets) :
            /\ (k \in Sources) <=> QualifiesTruthy(tickets[k])
            /\ QualifiesTruthy(tickets[k]) =>
                   \E n \in DOMAIN inv.tickets :
                        /\ src[n] = k
                        /\ InByParkur(inv.by_parkur, inv.tickets[n].ticket)

\* a record whose active value is truthy but not true produced a row, and a
\* record whose hidden value is truthy but not true was dropped
C1_Witness ==
    /\ Returned
    /\ Len(tickets) = 1
    /\ \/ Sources = {1} /\ tickets[1].active = JNum(1)
       \/ Sources = {} /\ tickets[1].styleOptions.hidden = sNo
                       /\ tickets[1].active = JBool(TRUE)
                       /\ tickets[1].v = JNum(3) /\ tickets[1].name = nOpen

RECURSIVE RowSum(_, _, _)
RowSum(rs, p, n) ==
    IF rs = <<>> THEN 0
    ELSE (IF Head(rs).parkur = p /\ Head(rs).ticket = n THEN Head(rs).stock ELSE 0)
            + RowSum(Tail(rs), p, n)

\* C2: by_parkur[p][n] is the exact sum of the stock of the rows with parkur
\* p and ticket n; every row's pair is present; duplicates add up.
C2_Sums ==
    Returned =>
        /\ \A p \in DOMAIN inv.by_parkur : \A n \in DOMAIN inv.by_parkur[p] :
                inv.by_parkur[p][n] = RowSum(inv.tickets, p, n)
        /\ \A k \in 1..Len(inv.tickets) :
                /\ inv.tickets[k].parkur \in DOMAIN inv.by_parkur
                /\ inv.tickets[k].ticket \in DOMAIN inv.by_parkur[inv.tickets[k].parkur]

\* stocks 3 and 5 under category "Men", ticket "Open" gave 8
C2_Witness ==
    /\ Returned
    /\ Len(inv.tickets) = 2
    /\ inv.tickets[1].stock = 3
    /\ inv.tickets[2].stock = 5
    /\ "Men" \in DOMAIN inv.by_parkur
    /\ nOpen.s \in DOMAIN inv.by_parkur["Men"]
    /\ inv.by_parkur["Men"][nOpen.s] = 8

\* C3 as stated: a row's parkur is the (display) name of a category record
\* whose ref equals the ticket's categoryRef; with no categoryRef, or no
\* record of that ref, or no categories, it is "Unknown". A ticket without
\* a categoryRef never takes a category record's name.
C3_Parkur ==
    Returned =>
        \A k \in 1..Len(rows) :
            LET ref == tickets[src[k]].categoryRef
                matching == {c \in 1..Len(categories) : categories[c].ref = ref}
            IN  IF ref # None /\ matching # {}
                THEN \E c \in matching :
                        rows[k].parkur = NameOrUnknown(categories[c].name)
                ELSE rows[k].parkur = "Unknown"

\* C7 as stated: a record whose stock field is missing, null or not numeric
\* produces no row, and build_inventory raises nothing because of it.
C7_StockLenient ==
    LET nonNumeric(v) ==
            \/ v.t = "none"
            \/ v.t = "str" /\ ~IsIntLiteral(Strip(v.s))
    IN  /\ exc.where = "build_inventory: int" => ~nonNumeric(tickets[i].v)
        /\ bpc \in {"filter", "group"} =>
                \A k \in Sources : ~nonNumeric(tickets[k].v)

\* some segment of props.pageProps.event is a missing key, or the tickets
\* or the categories list is
PartMissing(doc) ==
    LET k == FirstBreak(doc.path)
    IN  \/ k # 0 /\ doc.path[k] = "missing"
        \/ k = 0 /\ (doc.tickets.st = "missing" \/ doc.categories.st = "missing")

NoReachableTickets(doc) ==
    FirstBreak(doc.path) # 0 \/ doc.tickets.st = "missing"

\* C8 as stated: on a document with a missing path segment or a missing
\* list build_inventory does not raise; with no reachable tickets it returns
\* tickets = [] and by_parkur = {}; with tickets but no categories every
\* row's parkur is "Unknown".
C8_MissingParts ==
    (pc \in {"build", "aborted"} \cup {"mkdir", "write", "print", "done"}
        /\ "extract" \in stages /\ PartMissing(next_data)) =>
        /\ exc.type \notin {"AttributeError", "ValueError", "TypeError"}
        /\ Returned =>
            /\ NoReachableTickets(next_data) => inv = [tickets |-> <<>>, by_parkur |-> <<>>]
            /\ next_data.categories.st = "missing" =>
                    \A k \in 1..Len(inv.tickets) : inv.tickets[k].parkur = "Unknown"

\* C9: tickets is an order-preserving subsequence of the input list: one
\* row per surviving record, in source order, duplicates kept apart, each
\* with the trimmed name and the integer stock of its record.
C9_Subsequence ==
    Returned =>
        /\ inv.tickets = rows
        /\ Len(src) = Len(rows)
        /\ \A k \in 1..Len(src) : src[k] \in 1..Len(tickets)
        /\ \A a, b \in 1..Len(src) : a < b => src[a] < src[b]
        /\ \A k \in 1..Len(rows) :
                /\ TrimmedOf(tickets[src[k]], rows[k].ticket)
                /\ rows[k].stock = IntegerStock(tickets[src[k]].v)

\* two records alike in name and category gave two rows, not one
C9_Witness ==
    /\ Returned
    /\ Len(rows) = 2
    /\ rows[1].ticket = rows[2].ticket
    /\ rows[1].parkur = rows[2].parkur

Pairs(bp) == UNION {{<<p, n>> : n \in DOMAIN bp[p]} : p \in DOMAIN bp}

RECURSIVE StockSum(_)
StockSum(rs) == IF rs = <<>> THEN 0 ELSE Head(rs).stock + StockSum(Tail(rs))

RECURSIVE SetSum(_, _)
SetSum(S, bp) ==
    IF S = {} THEN 0
    ELSE LET x == CHOOSE y \in S : TRUE
         IN  bp[x[1]][x[2]] + SetSum(S \ {x}, bp)

\* C10: the (category, ticket) pairs of by_parkur are exactly the (parkur,
\* ticket) pairs of the rows; no category maps to an empty sub-mapping;
\* every value is > 0; the values add up to the rows' total stock.
C10_Consistent ==
    Returned =>
        LET bp == inv.by_parkur
            rs == inv.tickets
        IN  /\ Pairs(bp) = {<<rs[k].parkur, rs[k].ticket>> : k \in 1..Len(rs)}
            /\ \A p \in DOMAIN bp : DOMAIN bp[p] # {}
            /\ \A pn \in Pairs(bp) : bp[pn[1]][pn[2]] > 0
            /\ SetSum(Pairs(bp), bp) = StockSum(rs)

\* two rows under two categories
C10_Witness ==
    /\ Returned
    /\ Len(inv.tickets) = 2
    /\ Cardinality(DOMAIN inv.by_parkur) = 2
    /\ Cardinality(Pairs(inv.by_parkur)) = 2

\* the file system is as it was when the run started
FsUntouched == dirs = fs0.dirs /\ files = fs0.files

\* C4: the directory is created and the file written only after fetch_html,
\* extract_next_data and build_inventory have all succeeded; a run that
\* one of them aborts leaves the file system as it found it.
C4_WriteLast ==
    /\ ~({"fetch", "extract", "build"} \subseteq stages) => FsUntouched
    /\ (pc = "aborted" /\ exc.type \in {"HTTPError", "ValueError", "AttributeError", "TypeError"})
            => FsUntouched

\* a run aborted by build_inventory whose output directory did not exist
\* and could have been created
C4_Witness ==
    /\ pc = "aborted"
    /\ exc.where = "build_inventory: int"
    /\ writable
    /\ out_dir \notin dirs

\* C5: a second run on the same page returns the same tickets, in the same
\* order, and the same by_parkur, or fails with the same error, whatever
\* the date and the file system have become; the parsed document is the
\* one the page held all along.
C5_Deterministic ==
    /\ (rerun /\ Returned) => (first.built /\ inv = first.inv)
    /\ (rerun /\ exc.type \in {"ValueError", "AttributeError", "TypeError"})
            => first.exc = exc
    /\ (pc = "build" \/ Returned) => next_data = page.doc
    /\ (rerun /\ "extract" \in stages) => next_data = first.doc

\* the second run returned a non-empty inventory while the first run's file
\* was already on disk
C5_Witness ==
    /\ rerun
    /\ Returned
    /\ Len(inv.tickets) = 2
    /\ files # <<>>

TwoDigits(s, a) == 10 * DigitValue(s[a]) + DigitValue(s[a + 1])

\* C6: the file name is the two-digit day, a dot, the two-digit month, a
\* dot, the four-digit year and ".json"; 2026-01-03 gives 03.01.2026.json;
\* main writes <out_dir>/<that name>, the date being the instant recorded
\* as fetched_at.
C6_Filename ==
    /\ "now" \in stages =>
        LET f == out_path[2]
        IN  /\ out_path[1] = out_dir
            /\ Len(f) = 15
            /\ \A k \in {1, 2, 4, 5, 7, 8, 9, 10} : IsDigit(f[k])
            /\ f[3] = "." /\ f[6] = "."
            /\ SubSeq(f, 11, 15) = <<".", "j", "s", "o", "n">>
            /\ TwoDigits(f, 1) = dt.d
            /\ TwoDigits(f, 4) = dt.m
            /\ 100 * TwoDigits(f, 7) + TwoDigits(f, 9) = dt.y
            /\ dt = Date(3, 1, 2026) =>
                    f = <<"0","3",".","0","1",".","2","0","2","6",".","j","s","o","n">>
    /\ "write" \in stages =>
        /\ out_path \in DOMAIN files
        /\ files[out_path] = payload
        /\ payload.fetched_at = dt
        /\ \A q \in DOMAIN files : q \in DOMAIN fs0.files \/ q = out_path

\* the file was written under the date taken before the request, although
\* a midnight passed before the answer came
C6_Witness ==
    /\ "write" \in stages
    /\ dt = Date(9, 10, 2026)
    /\ clock # dt
    /\ out_dir = "out"

====
